---------------------------- MODULE Spec2Model ----------------------------
(***************************************************************************)
(* A model of main.py of IBKR-Trades-Converter: process_xml_files reads    *)
(* the directory entries one by one and parses each .xml file with         *)
(* parse_xml; get_trades_from_xmls then walks the parsed documents and     *)
(* converts every non-CASH trade into a CgtCalculatorTrade row.            *)
(*                                                                         *)
(* Numbers.  A Python float is modelled as an exact decimal                *)
(* [n |-> numerator, d |-> number of decimal places], kept normalised, so  *)
(* that equal values are equal records.  Attribute texts are sequences of  *)
(* one-character strings over digits, sign, point and letters; exponents,  *)
(* "inf", "nan", underscores and surrounding blanks are outside the        *)
(* alphabet.  Binary rounding of products is not modelled.                 *)
(*                                                                         *)
(* Input.  The directory and the XML trees are the program's input.  The   *)
(* model reveals them as the code reads them: a directory entry when the   *)
(* loop of process_xml_files reaches it, an element when a findall loop of *)
(* parse_xml reaches it.                                                   *)
(***************************************************************************)
EXTENDS Integers, Sequences, FiniteSets, TLC

(***************************************************************************)
(* The field names of the records below.  TLC keeps the fields of a record *)
(* in the order of their first use in the module; every record constructor *)
(* lists its fields in the order of this record, so that a record value is  *)
(* in normal form from its construction on.                                *)
(***************************************************************************)
FieldNames ==
    [present |-> "present",
     text |-> "text",
     n |-> "n",
     d |-> "d",
     accountId |-> "accountId",
     acctAlias |-> "acctAlias",
     fromDate |-> "fromDate",
     toDate |-> "toDate",
     period |-> "period",
     whenGenerated |-> "whenGenerated",
     symbol |-> "symbol",
     transactionType |-> "transactionType",
     exchange |-> "exchange",
     quantity |-> "quantity",
     tradePrice |-> "tradePrice",
     currency |-> "currency",
     fxRateToBase |-> "fxRateToBase",
     assetCategory |-> "assetCategory",
     ibCommission |-> "ibCommission",
     ibCommissionCurrency |-> "ibCommissionCurrency",
     tradeDate |-> "tradeDate",
     elem |-> "elem",
     dateOpened |-> "dateOpened",
     AccountInformation |-> "AccountInformation",
     Trades |-> "Trades",
     accountInformation |-> "accountInformation",
     trades |-> "trades",
     trade |-> "trade",
     lot |-> "lot",
     side |-> "side",
     date |-> "date",
     company |-> "company",
     shares |-> "shares",
     price |-> "price",
     charges |-> "charges",
     tax |-> "tax",
     xml |-> "xml",
     content |-> "content",
     queryName |-> "queryName",
     type |-> "type",
     FlexStatements |-> "FlexStatements",
     flexStatements |-> "flexStatements",
     count |-> "count",
     flexStatement |-> "flexStatement",
     exc |-> "exc",
     tag |-> "tag",
     attr |-> "attr",
     built |-> "built",
     files |-> "files",
     elements |-> "elements",
     statements |-> "statements",
     lots |-> "lots",
     dirEntries |-> "dirEntries",
     infos |-> "infos",
     hasTrades |-> "hasTrades",
     symbols |-> "symbols",
     quantities |-> "quantities",
     prices |-> "prices",
     currencies |-> "currencies",
     fxRates |-> "fxRates",
     categories |-> "categories",
     commissions |-> "commissions",
     commissionCurrencies |-> "commissionCurrencies",
     dates |-> "dates",
     lotElems |-> "lotElems"]

(***************************************************************************)
(* Bounds of the batch specification: the directory entries of one run,    *)
(* and the FlexStatement, Trade and Lot elements of all its documents.     *)
(***************************************************************************)
MaxFiles == 2
MaxElements == 4

(***************************************************************************)
(* Python values.                                                          *)
(***************************************************************************)
\* None, as the value of an attribute that Element.get does not find.
None == "None"

\* An attribute read for float() or int(): absent, or its text.
Absent == [present |-> FALSE, text |-> <<>>]
Text(s) == [present |-> TRUE, text |-> s]

Digits == {"0", "1", "2", "3", "4", "5", "6", "7", "8", "9"}
DigitChars == <<"0", "1", "2", "3", "4", "5", "6", "7", "8", "9">>
DigitVal(c) == (CHOOSE i \in 1..10 : DigitChars[i] = c) - 1

\* The text after one optional leading sign.
Unsigned(s) == IF Len(s) > 0 /\ s[1] \in {"+", "-"} THEN Tail(s) ELSE s

\* float(text) succeeds: sign, digits with at most one point, one digit at least.
IsFloatText(s) ==
    LET body == Unsigned(s)
    IN  /\ \A i \in 1..Len(body) : body[i] \in Digits \cup {"."}
        /\ Cardinality({i \in 1..Len(body) : body[i] = "."}) <= 1
        /\ \E i \in 1..Len(body) : body[i] \in Digits

\* int(text) succeeds: sign and digits only.
IsIntText(s) ==
    LET body == Unsigned(s)
    IN  /\ Len(body) > 0
        /\ \A i \in 1..Len(body) : body[i] \in Digits

\* The number written by the digits of s, its point ignored.
RECURSIVE DigitsValue(_)
DigitsValue(s) ==
    IF Len(s) = 0 THEN 0
    ELSE LET init == SubSeq(s, 1, Len(s) - 1)
             c == s[Len(s)]
         IN  IF c = "." THEN DigitsValue(init)
             ELSE 10 * DigitsValue(init) + DigitVal(c)

\* The number of digits after the point.
Places(s) ==
    LET dots == {i \in 1..Len(s) : s[i] = "."}
    IN  IF dots = {} THEN 0 ELSE Len(s) - (CHOOSE i \in dots : TRUE)

RECURSIVE Pow10(_)
Pow10(k) == IF k = 0 THEN 1 ELSE 10 * Pow10(k - 1)

\* A decimal with no trailing zero among its places.
RECURSIVE Norm(_)
Norm(x) ==
    IF x.d > 0 /\ x.n % 10 = 0 THEN Norm([n |-> x.n \div 10, d |-> x.d - 1])
    ELSE x

Zero == [n |-> 0, d |-> 0]

\* float(text) for a text that IsFloatText accepts.
FloatValue(s) ==
    LET body == Unsigned(s)
        mag == DigitsValue(body)
    IN  Norm([n |-> IF Len(s) > 0 /\ s[1] = "-" THEN 0 - mag ELSE mag,
              d |-> Places(body)])

\* int(text) for a text that IsIntText accepts.
IntValue(s) ==
    LET mag == DigitsValue(Unsigned(s))
    IN  IF s[1] = "-" THEN 0 - mag ELSE mag

\* The exception float(attribute) raises, or None when it returns.
FloatRaises(a) ==
    IF ~a.present THEN "TypeError"
    ELSE IF ~IsFloatText(a.text) THEN "ValueError"
    ELSE None

\* The exception int(attribute) raises, or None when it returns.
IntRaises(a) ==
    IF ~a.present THEN "TypeError"
    ELSE IF ~IsIntText(a.text) THEN "ValueError"
    ELSE None

\* Float arithmetic used by the conversion.
Abs(x) == [n |-> IF x.n < 0 THEN 0 - x.n ELSE x.n, d |-> x.d]
Mul(x, y) == Norm([n |-> x.n * y.n, d |-> x.d + y.d])
Negative(x) == x.n < 0
\* int(x) of a float: truncation toward zero.
Trunc(x) ==
    IF x.n < 0 THEN 0 - ((0 - x.n) \div Pow10(x.d)) ELSE x.n \div Pow10(x.d)


(***************************************************************************)
(* parse_xml: the objects built from one Trade or Lot element.  The field  *)
(* elem is history: the element the object was built from.                 *)
(***************************************************************************)
\* The first required numeric attribute on which float() raises, in the order
\* the constructor's arguments are evaluated; None when all three parse.
FirstBadNumeric(e) ==
    IF FloatRaises(e.quantity) # None THEN "quantity"
    ELSE IF FloatRaises(e.tradePrice) # None THEN "tradePrice"
    ELSE IF FloatRaises(e.fxRateToBase) # None THEN "fxRateToBase"
    ELSE None

\* A mutant of CommissionOf: the fallback of the except clause is 1.0.
CommissionFallbackOne(e) ==
    IF FloatRaises(e.ibCommission) = None THEN FloatValue(e.ibCommission.text)
    ELSE [n |-> 1, d |-> 0]

\* try: float(get('ibCommission')) except (ValueError, TypeError): 0.0
CommissionOf(e) ==
    IF FloatRaises(e.ibCommission) = None THEN FloatValue(e.ibCommission.text)
    ELSE Zero

\* The exception building a Trade from element e raises, or None.
TradeRaisesAt(e) == FirstBadNumeric(e)

\* The exception building a Lot from element e raises, or None.
LotRaisesAt(e) == FirstBadNumeric(e)

\* float() of a required numeric: its value, and Zero where the text does not
\* parse (reached only by an object that should not have been built).
Numeric(a) == IF FloatRaises(a) = None THEN FloatValue(a.text) ELSE Zero

TradeOf(e) ==
    [symbol |-> e.symbol,
     transactionType |-> e.transactionType,
     exchange |-> e.exchange,
     quantity |-> Numeric(e.quantity),
     tradePrice |-> Numeric(e.tradePrice),
     currency |-> e.currency,
     fxRateToBase |-> Numeric(e.fxRateToBase),
     assetCategory |-> e.assetCategory,
     ibCommission |-> CommissionOf(e),
     ibCommissionCurrency |-> e.ibCommissionCurrency,
     tradeDate |-> e.tradeDate,
     elem |-> e]

LotOf(e) ==
    [symbol |-> e.symbol,
     transactionType |-> e.transactionType,
     exchange |-> e.exchange,
     quantity |-> Numeric(e.quantity),
     tradePrice |-> Numeric(e.tradePrice),
     currency |-> e.currency,
     fxRateToBase |-> Numeric(e.fxRateToBase),
     assetCategory |-> e.assetCategory,
     ibCommission |-> e.ibCommission,
     ibCommissionCurrency |-> e.ibCommissionCurrency,
     tradeDate |-> e.tradeDate,
     elem |-> e]

(***************************************************************************)
(* Trade's methods and convert.                                            *)
(***************************************************************************)
\* A mutant of side: zero counted as a sale.
sideNonPositive(trade) == IF trade.quantity.n <= 0 THEN "SELL" ELSE "BUY"

side(trade) == IF Negative(trade.quantity) THEN "SELL" ELSE "BUY"

\* A mutant of tradePriceInBaseCurrency: the sign of the product kept.
tradePriceSigned(trade) == Mul(trade.tradePrice, trade.fxRateToBase)

tradePriceInBaseCurrency(trade) == Abs(Mul(trade.tradePrice, trade.fxRateToBase))

\* A mutant of ibCommissionInBaseCurrency: compared with a fixed base currency.
ibCommissionAgainstBase(trade) ==
    LET ibCommission == Abs(trade.ibCommission)
    IN  IF trade.ibCommissionCurrency = "GBP"
        THEN Mul(ibCommission, trade.fxRateToBase)
        ELSE ibCommission

ibCommissionInBaseCurrency(trade) ==
    LET ibCommission == Abs(trade.ibCommission)
    IN  IF trade.ibCommissionCurrency = trade.currency
        THEN Mul(ibCommission, trade.fxRateToBase)
        ELSE ibCommission

\* A mutant of sharesOf: the magnitude rounded half up instead of truncated.
sharesRounded(trade) ==
    LET q == Abs(trade.quantity)
    IN  (2 * q.n + Pow10(q.d)) \div (2 * Pow10(q.d))

\* int(abs(ibkrTrade.quantity))
sharesOf(trade) == Trunc(Abs(trade.quantity))

convert(ibkrTrade) ==
    [side |-> side(ibkrTrade),
     date |-> ibkrTrade.tradeDate,
     company |-> ibkrTrade.symbol,
     shares |-> sharesOf(ibkrTrade),
     price |-> tradePriceInBaseCurrency(ibkrTrade),
     charges |-> ibCommissionInBaseCurrency(ibkrTrade),
     tax |-> 0]

(***************************************************************************)
(* The parsed object graph.  An Optional field is <<>> (None) or <<x>>.    *)
(***************************************************************************)
RECURSIVE Concat(_)
Concat(ss) == IF Len(ss) = 0 THEN <<>> ELSE Head(ss) \o Concat(Tail(ss))

\* data.flexStatements.flexStatement, empty for a document without collection.
StatementsOf(doc) ==
    IF Len(doc.flexStatements) = 0 THEN <<>>
    ELSE doc.flexStatements[1].flexStatement

\* statement.trades.trade, empty for a statement without trade block.
TradesOf(st) == IF Len(st.trades) = 0 THEN <<>> ELSE st.trades[1].trade

LotsOf(st) == IF Len(st.trades) = 0 THEN <<>> ELSE st.trades[1].lot

AllStatements(docs) == Concat([i \in 1..Len(docs) |-> StatementsOf(docs[i])])

AllTrades(docs) ==
    LET sts == AllStatements(docs)
    IN  Concat([i \in 1..Len(sts) |-> TradesOf(sts[i])])

AllLots(docs) ==
    LET sts == AllStatements(docs)
    IN  Concat([i \in 1..Len(sts) |-> LotsOf(sts[i])])

(***************************************************************************)
(* The input the program may read.                                         *)
(***************************************************************************)
TradeElem(sym, qty, price, ccy, fx, cat, comm, commCcy, date) ==
    [symbol |-> sym, transactionType |-> "ExchTrade", exchange |-> "NASDAQ",
     quantity |-> qty, tradePrice |-> price, currency |-> ccy,
     fxRateToBase |-> fx, assetCategory |-> cat, ibCommission |-> comm,
     ibCommissionCurrency |-> commCcy, tradeDate |-> date]

QuantityAttrs ==
    {Absent, Text(<<"x">>), Text(<<"-", "1", "2", ".", "7">>),
     Text(<<"-", "0", ".", "5">>), Text(<<"0">>), Text(<<"1", "0">>),
     Text(<<"3", ".", "5">>)}

PriceAttrs ==
    {Absent, Text(<<"1", ".", "5", ".">>), Text(<<"1", "5", "0">>),
     Text(<<"-", "2", ".", "5">>), Text(<<".", "5">>)}

FxAttrs ==
    {Absent, Text(<<"-">>), Text(<<"1">>), Text(<<"0", ".", "8">>),
     Text(<<"-", "1", ".", "3">>)}

CommissionAttrs ==
    {Absent, Text(<<>>), Text(<<"x">>), Text(<<"-", "1">>),
     Text(<<"1", ".", "0">>), Text(<<"2", ".", "5">>)}

\* Lot elements: one whose numerics parse, one without tradePrice.
LotElems ==
    {TradeElem("AAPL", Text(<<"-", "1", "0">>), Text(<<"1", "5", "0", ".", "0">>),
               "USD", Text(<<"1", ".", "0">>), "STK", Text(<<"1", ".", "0">>),
               "USD", "2024-01-05"),
     TradeElem("AAPL", Text(<<"-", "1", "0">>), Absent,
               "USD", Text(<<"1", ".", "0">>), "STK", Absent,
               "USD", "2024-01-05")}

\* A FlexStatement element: its attributes, and which children it has.
StatementElem(acct, info, hasTrades) ==
    [accountId |-> acct, fromDate |-> "20240101", toDate |-> "20241231",
     period |-> "LastYear", whenGenerated |-> "20250101;120000",
     AccountInformation |-> info, Trades |-> hasTrades]

AccountInformationElem(ccy) ==
    [accountId |-> "U1", acctAlias |-> None, currency |-> ccy,
     dateOpened |-> "20200101"]

\* A directory entry: whether its name ends with ".xml", and what reading and
\* ET.fromstring make of it.
DirEntry(xml, content, hasStatements, count) ==
    [xml |-> xml, content |-> content, queryName |-> "Trades", type |-> "AF",
     FlexStatements |-> hasStatements, count |-> count]

BatchDirEntries ==
    {DirEntry(FALSE, "doc", FALSE, Absent),
     DirEntry(TRUE, "unreadable", FALSE, Absent),
     DirEntry(TRUE, "illformed", FALSE, Absent),
     DirEntry(TRUE, "doc", FALSE, Absent),
     DirEntry(TRUE, "doc", TRUE, Text(<<"2">>)),
     DirEntry(TRUE, "doc", TRUE, Absent)}

AnyDirEntries ==
    BatchDirEntries \cup {DirEntry(TRUE, "doc", TRUE, Text(<<"x">>))}

\* A universe: how many directory entries one run reads at most, how many
\* elements in all and of each kind, and what their children and attributes
\* are drawn from.
Batch ==
    [trades |-> MaxElements, files |-> MaxFiles, elements |-> MaxElements,
     statements |-> MaxElements, lots |-> MaxElements,
     dirEntries |-> BatchDirEntries,
     infos |-> {<<AccountInformationElem("GBP")>>},
     hasTrades |-> BOOLEAN,
     symbols |-> {"AAPL", "MSFT"},
     quantities |-> {Text(<<"-", "1", "0">>), Text(<<"x">>)},
     prices |-> {Text(<<"1", "5", "0", ".", "0">>)},
     currencies |-> {"USD"},
     fxRates |-> {Text(<<"0", ".", "8">>)},
     categories |-> {"STK", "CASH"},
     commissions |-> {Text(<<"1", ".", "0">>)},
     commissionCurrencies |-> {"USD"},
     dates |-> {"2024-01-05"},
     lotElems |-> LotElems]

\* One trade element, of every combination of the attribute texts above.
OneTrade ==
    [trades |-> 1, files |-> 1, elements |-> 3, statements |-> 1, lots |-> 1,
     dirEntries |-> AnyDirEntries,
     infos |-> {<<>>, <<AccountInformationElem("GBP")>>,
                <<AccountInformationElem("USD")>>},
     hasTrades |-> BOOLEAN,
     symbols |-> {"AAPL"},
     quantities |-> QuantityAttrs,
     prices |-> PriceAttrs,
     currencies |-> {"USD", "GBP"},
     fxRates |-> FxAttrs,
     categories |-> {"STK", "CASH", "cash", None},
     commissions |-> CommissionAttrs,
     commissionCurrencies |-> {"USD", "GBP", None},
     dates |-> {"2024-01-05"},
     lotElems |-> LotElems]

\* The FlexStatement elements, and the Trade elements, a universe holds.
StatementElems(U) ==
    {StatementElem("U1", info, hasTrades) :
        info \in U.infos, hasTrades \in U.hasTrades}

TradeElems(U) ==
    {TradeElem(sym, qty, price, ccy, fx, cat, comm, commCcy, date) :
        sym \in U.symbols, qty \in U.quantities, price \in U.prices,
        ccy \in U.currencies, fx \in U.fxRates, cat \in U.categories,
        comm \in U.commissions, commCcy \in U.commissionCurrencies,
        date \in U.dates}

(***************************************************************************)
(* The state.                                                              *)
(*   pc                where the program is                                *)
(*   entries           how many directory entries the loop of              *)
(*                     process_xml_files has taken                         *)
(*   errors            the number of error lines printed                   *)
(*   exception         the exception an except clause of                   *)
(*                     process_xml_files holds, if any                     *)
(*   parsed_data_list  process_xml_files' list of parsed documents         *)
(*   response          parse_xml's document under construction, if any     *)
(*   d, s, t           the positions of the three loops of                 *)
(*                     get_trades_from_xmls                                *)
(*   trades            get_trades_from_xmls' list of rows                  *)
(***************************************************************************)
VARIABLES
    pc, entries, errors, exception, parsed_data_list, response, d, s, t, trades

vars ==
    <<pc, entries, errors, exception, parsed_data_list, response, d, s, t, trades>>

Init ==
    /\ pc = "listdir"
    /\ entries = 0
    /\ errors = 0
    /\ exception = <<>>
    /\ parsed_data_list = <<>>
    /\ response = <<>>
    /\ d = 0
    /\ s = 0
    /\ t = 0
    /\ trades = <<>>

\* The documents built so far, the one under construction included.
Built == parsed_data_list \o response

\* The elements read into them.
Elements ==
    Len(AllStatements(Built)) + Len(AllTrades(Built)) + Len(AllLots(Built))

\* An exception: its type, the call or the kind of element that raised it and
\* the attribute; and, as history, the element itself (if any) and how many
\* Trade objects the abandoned document held.
Exception(exc, tag, attr, elem) ==
    [elem |-> elem, exc |-> exc, tag |-> tag, attr |-> attr,
     built |-> Len(AllTrades(response))]

\* A mutant of Except: the document built so far is appended all the same.
ExceptKeepsPartial(exc, tag, attr, elem) ==
    /\ exception' = <<Exception(exc, tag, attr, elem)>>
    /\ parsed_data_list' = parsed_data_list \o response
    /\ response' = <<>>
    /\ pc' = "except"
    /\ UNCHANGED <<errors, d, s, t, trades>>

\* A mutant of Except: the exception leaves process_xml_files.
ExceptPropagates(exc, tag, attr, elem) ==
    /\ exception' = <<Exception(exc, tag, attr, elem)>>
    /\ response' = <<>>
    /\ pc' = "crashed"
    /\ UNCHANGED <<errors, parsed_data_list, d, s, t, trades>>

\* An exception raised under the try of process_xml_files: parse_xml's frame
\* and its document are gone, and an except clause holds the exception.
Except(exc, tag, attr, elem) ==
    /\ exception' = <<Exception(exc, tag, attr, elem)>>
    /\ response' = <<>>
    /\ pc' = "except"
    /\ UNCHANGED <<errors, parsed_data_list, d, s, t, trades>>

\* except ET.ParseError: print, and go on with the next entry.
PrintParseError ==
    /\ pc = "except"
    /\ exception[1].exc = "ParseError"
    /\ errors' = errors + 1
    /\ exception' = <<>>
    /\ pc' = "listdir"
    /\ UNCHANGED <<entries, parsed_data_list, response, d, s, t, trades>>

\* except Exception: print, and go on with the next entry.
PrintUnexpected ==
    /\ pc = "except"
    /\ exception[1].exc # "ParseError"
    /\ errors' = errors + 1
    /\ exception' = <<>>
    /\ pc' = "listdir"
    /\ UNCHANGED <<entries, parsed_data_list, response, d, s, t, trades>>

\* parse_xml returns doc: process_xml_files appends it.
Returns(doc) ==
    /\ parsed_data_list' = Append(parsed_data_list, doc)
    /\ response' = <<>>
    /\ pc' = "listdir"
    /\ UNCHANGED <<errors, exception, d, s, t, trades>>

(***************************************************************************)
(* process_xml_files: one directory entry.                                 *)
(***************************************************************************)
\* The name does not end with ".xml".
SkipEntry(U) ==
    /\ pc = "listdir"
    /\ entries < U.files
    /\ \E f \in U.dirEntries : ~f.xml
    /\ entries' = entries + 1
    /\ UNCHANGED <<pc, errors, exception, parsed_data_list,
                   response, d, s, t, trades>>

OpenFails(U) ==
    /\ pc = "listdir"
    /\ entries < U.files
    /\ \E f \in U.dirEntries : f.xml /\ f.content = "unreadable"
    /\ entries' = entries + 1
    /\ Except("OSError", "open", None, <<>>)

FromstringFails(U) ==
    /\ pc = "listdir"
    /\ entries < U.files
    /\ \E f \in U.dirEntries : f.xml /\ f.content = "illformed"
    /\ entries' = entries + 1
    /\ Except("ParseError", "fromstring", None, <<>>)

\* A document without FlexStatements child: parse_xml returns at once.
ParseWithoutStatements(U) ==
    /\ pc = "listdir"
    /\ entries < U.files
    /\ \E f \in U.dirEntries :
        /\ f.xml /\ f.content = "doc" /\ ~f.FlexStatements
        /\ Returns([queryName |-> f.queryName, type |-> f.type,
                    flexStatements |-> <<>>])
    /\ entries' = entries + 1

CountFails(U) ==
    /\ pc = "listdir"
    /\ entries < U.files
    /\ \E f \in U.dirEntries :
        /\ f.xml /\ f.content = "doc" /\ f.FlexStatements
        /\ IntRaises(f.count) # None
        /\ Except(IntRaises(f.count), "FlexStatements", "count", <<>>)
    /\ entries' = entries + 1

ParseRoot(U) ==
    /\ pc = "listdir"
    /\ entries < U.files
    /\ \E f \in U.dirEntries :
        /\ f.xml /\ f.content = "doc" /\ f.FlexStatements
        /\ IntRaises(f.count) = None
        /\ response' = <<[queryName |-> f.queryName, type |-> f.type,
                          flexStatements |->
                              <<[count |-> IntValue(f.count.text),
                                 flexStatement |-> <<>>]>>]>>
    /\ entries' = entries + 1
    /\ pc' = "statement_elems"
    /\ UNCHANGED <<errors, exception, parsed_data_list, d, s, t, trades>>

(***************************************************************************)
(* parse_xml: the loop over FlexStatement elements and, inside it, the     *)
(* loops over the Trade and the Lot elements of the Trades child.          *)
(***************************************************************************)
\* The index of the statement the inner loops fill.
Last == Len(response[1].flexStatements[1].flexStatement)

ParseStatement(U) ==
    /\ pc = "statement_elems"
    /\ Elements < U.elements
    /\ Len(AllStatements(Built)) < U.statements
    /\ \E e \in StatementElems(U) :
        /\ response' =
              [response EXCEPT ![1].flexStatements[1].flexStatement =
                  Append(@, [accountId |-> e.accountId,
                             fromDate |-> e.fromDate,
                             toDate |-> e.toDate,
                             period |-> e.period,
                             whenGenerated |-> e.whenGenerated,
                             accountInformation |-> e.AccountInformation,
                             trades |-> IF e.Trades
                                        THEN <<[trade |-> <<>>, lot |-> <<>>]>>
                                        ELSE <<>>])]
        /\ pc' = IF e.Trades THEN "trade_elems" ELSE "statement_elems"
    /\ UNCHANGED <<entries, errors, exception, parsed_data_list,
                   d, s, t, trades>>

ParseTrade(U) ==
    /\ pc = "trade_elems"
    /\ Elements < U.elements
    /\ Len(AllTrades(Built)) < U.trades
    /\ \E e \in TradeElems(U) :
        /\ TradeRaisesAt(e) = None
        /\ response' =
              [response EXCEPT
                  ![1].flexStatements[1].flexStatement[Last].trades[1].trade =
                      Append(@, TradeOf(e))]
    /\ UNCHANGED <<pc, entries, errors, exception,
                   parsed_data_list, d, s, t, trades>>

ParseTradeRaises(U) ==
    /\ pc = "trade_elems"
    /\ Elements < U.elements
    /\ Len(AllTrades(Built)) < U.trades
    /\ \E e \in TradeElems(U) :
        /\ TradeRaisesAt(e) # None
        /\ Except(FloatRaises(e[TradeRaisesAt(e)]), "Trade", TradeRaisesAt(e), <<e>>)
    /\ UNCHANGED entries

EndTrades ==
    /\ pc = "trade_elems"
    /\ pc' = "lot_elems"
    /\ UNCHANGED <<entries, errors, exception, parsed_data_list,
                   response, d, s, t, trades>>

ParseLot(U) ==
    /\ pc = "lot_elems"
    /\ Elements < U.elements
    /\ Len(AllLots(Built)) < U.lots
    /\ \E e \in U.lotElems :
        /\ LotRaisesAt(e) = None
        /\ response' =
              [response EXCEPT
                  ![1].flexStatements[1].flexStatement[Last].trades[1].lot =
                      Append(@, LotOf(e))]
    /\ UNCHANGED <<pc, entries, errors, exception,
                   parsed_data_list, d, s, t, trades>>

ParseLotRaises(U) ==
    /\ pc = "lot_elems"
    /\ Elements < U.elements
    /\ Len(AllLots(Built)) < U.lots
    /\ \E e \in U.lotElems :
        /\ LotRaisesAt(e) # None
        /\ Except(FloatRaises(e[LotRaisesAt(e)]), "Lot", LotRaisesAt(e), <<e>>)
    /\ UNCHANGED entries

EndLots ==
    /\ pc = "lot_elems"
    /\ pc' = "statement_elems"
    /\ UNCHANGED <<entries, errors, exception, parsed_data_list,
                   response, d, s, t, trades>>

EndStatements ==
    /\ pc = "statement_elems"
    /\ Returns(response[1])
    /\ UNCHANGED entries

\* os.listdir has no further entry: process_xml_files returns its list.
EndListing ==
    /\ pc = "listdir"
    /\ pc' = "for_data"
    /\ d' = 1
    /\ UNCHANGED <<entries, errors, exception, parsed_data_list,
                   response, s, t, trades>>

(***************************************************************************)
(* get_trades_from_xmls: the three nested loops.                           *)
(***************************************************************************)
\* A mutant of IsCash: the literal misspelt.
IsCashMisspelt(txn) == txn.assetCategory = "Cash"

\* if txn.assetCategory == "CASH": continue
IsCash(txn) == txn.assetCategory = "CASH"

\* A mutant of Emit: the row put in front of the list.
EmitInFront(rows, txn) == <<convert(txn)>> \o rows

\* trades.append(convert(txn))
Emit(rows, txn) == Append(rows, convert(txn))

\* The i-th statement the loop over data.flexStatements.flexStatement yields.
StatementAt(doc, i) == doc.flexStatements[1].flexStatement[i]

\* The loop over parsed_data is exhausted: return trades.
Return ==
    /\ pc = "for_data"
    /\ d > Len(parsed_data_list)
    /\ pc' = "done"
    /\ UNCHANGED <<entries, errors, exception, parsed_data_list,
                   response, d, s, t, trades>>

\* data.flexStatements is None: AttributeError leaves get_trades_from_xmls.
NoStatementsCrash ==
    /\ pc = "for_data"
    /\ d <= Len(parsed_data_list)
    /\ Len(parsed_data_list[d].flexStatements) = 0
    /\ pc' = "crashed"
    /\ UNCHANGED <<entries, errors, exception, parsed_data_list,
                   response, d, s, t, trades>>

EnterData ==
    /\ pc = "for_data"
    /\ d <= Len(parsed_data_list)
    /\ Len(parsed_data_list[d].flexStatements) > 0
    /\ s' = 1
    /\ pc' = "for_statement"
    /\ UNCHANGED <<entries, errors, exception, parsed_data_list,
                   response, d, t, trades>>

LeaveData ==
    /\ pc = "for_statement"
    /\ s > Len(StatementsOf(parsed_data_list[d]))
    /\ d' = d + 1
    /\ pc' = "for_data"
    /\ UNCHANGED <<entries, errors, exception, parsed_data_list,
                   response, s, t, trades>>

\* statement.trades is None: AttributeError leaves get_trades_from_xmls.
NoTradesCrash ==
    /\ pc = "for_statement"
    /\ s <= Len(StatementsOf(parsed_data_list[d]))
    /\ Len(StatementAt(parsed_data_list[d], s).trades) = 0
    /\ pc' = "crashed"
    /\ UNCHANGED <<entries, errors, exception, parsed_data_list,
                   response, d, s, t, trades>>

EnterStatement ==
    /\ pc = "for_statement"
    /\ s <= Len(StatementsOf(parsed_data_list[d]))
    /\ Len(StatementAt(parsed_data_list[d], s).trades) > 0
    /\ t' = 1
    /\ pc' = "for_txn"
    /\ UNCHANGED <<entries, errors, exception, parsed_data_list,
                   response, d, s, trades>>

LeaveStatement ==
    /\ pc = "for_txn"
    /\ t > Len(StatementAt(parsed_data_list[d], s).trades[1].trade)
    /\ s' = s + 1
    /\ pc' = "for_statement"
    /\ UNCHANGED <<entries, errors, exception, parsed_data_list,
                   response, d, t, trades>>

SkipCash ==
    /\ pc = "for_txn"
    /\ t <= Len(StatementAt(parsed_data_list[d], s).trades[1].trade)
    /\ IsCash(StatementAt(parsed_data_list[d], s).trades[1].trade[t])
    /\ t' = t + 1
    /\ UNCHANGED <<pc, entries, errors, exception,
                   parsed_data_list, response, d, s, trades>>

ConvertTrade ==
    /\ pc = "for_txn"
    /\ t <= Len(StatementAt(parsed_data_list[d], s).trades[1].trade)
    /\ ~IsCash(StatementAt(parsed_data_list[d], s).trades[1].trade[t])
    /\ trades' = Emit(trades, StatementAt(parsed_data_list[d], s).trades[1].trade[t])
    /\ t' = t + 1
    /\ UNCHANGED <<pc, entries, errors, exception,
                   parsed_data_list, response, d, s>>

(***************************************************************************)
(* The specifications: a batch of documents, and one trade element drawn   *)
(* from every combination of attribute texts.                              *)
(***************************************************************************)
Step(U) ==
    \/ SkipEntry(U)
    \/ OpenFails(U)
    \/ FromstringFails(U)
    \/ ParseWithoutStatements(U)
    \/ CountFails(U)
    \/ PrintParseError
    \/ PrintUnexpected
    \/ ParseRoot(U)
    \/ ParseStatement(U)
    \/ ParseTrade(U)
    \/ ParseTradeRaises(U)
    \/ EndTrades
    \/ ParseLot(U)
    \/ ParseLotRaises(U)
    \/ EndLots
    \/ EndStatements
    \/ EndListing
    \/ Return
    \/ NoStatementsCrash
    \/ EnterData
    \/ LeaveData
    \/ NoTradesCrash
    \/ EnterStatement
    \/ LeaveStatement
    \/ SkipCash
    \/ ConvertTrade

Next == Step(Batch)

Spec == Init /\ [][Next]_vars

NextOneTrade == Step(OneTrade)

SpecOneTrade == Init /\ [][NextOneTrade]_vars

(***************************************************************************)
(* What the properties below speak of.                                     *)
(***************************************************************************)
\* The trades of the parsed documents whose category is not "CASH", in nested
\* order: documents, then statements, then the trades of the trade block.
Sources ==
    SelectSeq(AllTrades(parsed_data_list), LAMBDA x : x.assetCategory # "CASH")

\* The three required numerics of an element are present and are numbers.
RequiredNumericsParse(e) ==
    \A a \in {"quantity", "tradePrice", "fxRateToBase"} :
        e[a].present /\ IsFloatText(e[a].text)

\* The ibCommission attribute of an element is present and is a number.
CommissionParses(e) == e.ibCommission.present /\ IsFloatText(e.ibCommission.text)

(***************************************************************************)
(* C1.  The ledger is the sequence of the non-CASH trades in nested order  *)
(* (document, statement, trade): at every step the rows are the rows of    *)
(* the first non-CASH trades in that order, so nothing is ever reordered,  *)
(* and the returned ledger has a row for each of them.                     *)
(***************************************************************************)
C1_LedgerInTraversalOrder ==
    /\ Len(trades) <= Len(Sources)
    /\ \A k \in 1..Len(trades) : trades[k] = convert(Sources[k])
    /\ pc = "done" => Len(trades) = Len(Sources)

\* Two documents, each with one stock trade, and the two rows differ.
C1_Witness ==
    /\ pc = "done"
    /\ Len(parsed_data_list) = 2
    /\ Len(AllTrades(<<parsed_data_list[1]>>)) = 1
    /\ Len(trades) = 2
    /\ trades[1].company # trades[2].company

(***************************************************************************)
(* C2.  A document without statement collection and a statement without   *)
(* trade block are not errors: the conversion never fails on them.         *)
(***************************************************************************)
C2_AbsentBlocksAreNotErrors == pc # "crashed"

(***************************************************************************)
(* C3.  A parse failure stays with its document: the conversion fails only *)
(* in the traversal, at a document without collection or a statement       *)
(* without trade block; a failing entry adds no document; and the returned *)
(* ledger has a row for every non-CASH trade of the parsed documents.      *)
(***************************************************************************)
C3_ParseFailuresStayLocal ==
    /\ pc = "crashed" =>
          /\ d \in 1..Len(parsed_data_list)
          /\ \/ Len(parsed_data_list[d].flexStatements) = 0
             \/ /\ s \in 1..Len(StatementsOf(parsed_data_list[d]))
                /\ Len(StatementsOf(parsed_data_list[d])[s].trades) = 0
    /\ Len(parsed_data_list) + errors + Len(exception) + Len(response) <= entries
    /\ pc = "done" => Len(trades) = Len(Sources)

\* An entry failed, another was parsed, and its rows are in the returned ledger.
C3_Witness ==
    /\ pc = "done"
    /\ errors >= 1
    /\ Len(parsed_data_list) >= 1
    /\ Len(trades) >= 1

(***************************************************************************)
(* C4.  No row for a trade whose category is "CASH", one row for every     *)
(* other trade: the returned ledger is as long as the parsed documents     *)
(* have trades of another category.                                        *)
(***************************************************************************)
C4_OnlyCashIsDropped ==
    LET all == AllTrades(parsed_data_list)
        others == {k \in 1..Len(all) : all[k].assetCategory # "CASH"}
    IN  /\ Len(trades) <= Cardinality(others)
        /\ pc = "done" => Len(trades) = Cardinality(others)

\* A returned ledger where a cash movement was dropped and a stock trade kept.
C4_Witness ==
    LET all == AllTrades(parsed_data_list)
    IN  /\ pc = "done"
        /\ \E k \in 1..Len(all) : all[k].assetCategory = "CASH"
        /\ Len(trades) >= 1
        /\ Len(trades) < Len(all)

(***************************************************************************)
(* C5.  A Trade or Lot element whose quantity, tradePrice or fxRateToBase  *)
(* is missing or no number fails its whole document: no object built from  *)
(* such an element is ever kept, the exception names that attribute, the   *)
(* document under construction is gone and the entry adds no document, so  *)
(* that no row can come from it.                                           *)
(***************************************************************************)
C5_BadNumericFailsDocument ==
    /\ \A k \in 1..Len(AllTrades(Built)) :
          RequiredNumericsParse(AllTrades(Built)[k].elem)
    /\ \A k \in 1..Len(AllLots(Built)) :
          RequiredNumericsParse(AllLots(Built)[k].elem)
    /\ (pc = "except" /\ exception[1].tag \in {"Trade", "Lot"}) =>
          /\ exception[1].attr \in {"quantity", "tradePrice", "fxRateToBase"}
          /\ exception[1].exc \in {"TypeError", "ValueError"}
          /\ ~RequiredNumericsParse(exception[1].elem[1])
          /\ response = <<>>
          /\ Len(parsed_data_list) + errors < entries
    /\ Len(trades) <= Len(AllTrades(parsed_data_list))

\* A lot without tradePrice fails a document that already held a Trade.
C5_Witness ==
    /\ pc = "except"
    /\ exception[1].tag = "Lot"
    /\ exception[1].built >= 1
    /\ response = <<>>

(***************************************************************************)
(* C6.  A Trade element whose ibCommission is missing or no number does    *)
(* not fail parsing: an element fails only for a required numeric; the     *)
(* Trade built from it has commission 0.0; its row is in the returned      *)
(* ledger and its charges are 0.0, the currencies equal or not.            *)
(***************************************************************************)
C6_BadCommissionIsZero ==
    /\ (pc = "except" /\ exception[1].tag = "Trade") =>
          ~RequiredNumericsParse(exception[1].elem[1])
    /\ \A k \in 1..Len(AllTrades(Built)) :
          ~CommissionParses(AllTrades(Built)[k].elem) =>
              AllTrades(Built)[k].ibCommission = Zero
    /\ Len(trades) <= Len(Sources)
    /\ \A k \in 1..Len(trades) :
          ~CommissionParses(Sources[k].elem) => trades[k].charges = Zero
    /\ pc = "done" => Len(trades) = Len(Sources)

\* A returned row of a trade without usable commission whose commission
\* currency is the trade's currency and whose FX rate is not 1.
C6_Witness ==
    /\ pc = "done"
    /\ Len(trades) = 1
    /\ ~CommissionParses(Sources[1].elem)
    /\ Sources[1].ibCommissionCurrency = Sources[1].currency
    /\ Sources[1].fxRateToBase # [n |-> 1, d |-> 0]
    /\ trades[1].charges = Zero

(***************************************************************************)
(* C7.  The charges of a row are abs(ibCommission) * fxRateToBase when the *)
(* commission currency is the trade's own currency, and abs(ibCommission)  *)
(* otherwise, whatever the currency of the account.                        *)
(***************************************************************************)
C7_ChargesFollowTradeCurrency ==
    /\ Len(trades) <= Len(Sources)
    /\ \A k \in 1..Len(trades) :
          trades[k].charges =
              IF Sources[k].ibCommissionCurrency = Sources[k].currency
              THEN Mul(Abs(Sources[k].ibCommission), Sources[k].fxRateToBase)
              ELSE Abs(Sources[k].ibCommission)

\* A row whose commission was converted although the account's currency is
\* not the commission's: trade and commission in USD, account in GBP.
C7_Witness ==
    /\ pc = "done"
    /\ Len(trades) = 1
    /\ Sources[1].currency = "USD"
    /\ Sources[1].ibCommissionCurrency = "USD"
    /\ AllStatements(parsed_data_list)[1].accountInformation =
          <<AccountInformationElem("GBP")>>
    /\ Sources[1].ibCommission = [n |-> 25, d |-> 1]
    /\ Sources[1].fxRateToBase = [n |-> 8, d |-> 1]
    /\ trades[1].charges = [n |-> 2, d |-> 0]

(***************************************************************************)
(* C8.  The side of a row is "SELL" exactly when the quantity of its trade *)
(* is below zero, and "BUY" otherwise; a quantity of zero is a "BUY".      *)
(***************************************************************************)
C8_SideFollowsSign ==
    /\ Len(trades) <= Len(Sources)
    /\ \A k \in 1..Len(trades) :
          /\ trades[k].side \in {"BUY", "SELL"}
          /\ trades[k].side = "SELL" <=> Sources[k].quantity.n < 0

\* A row of a trade whose quantity is zero.
C8_Witness ==
    /\ pc = "done"
    /\ Len(trades) = 1
    /\ Sources[1].quantity = Zero
    /\ trades[1].side = "BUY"

(***************************************************************************)
(* C9.  The shares of a row are the magnitude of the quantity truncated    *)
(* toward zero: the largest integer not above abs(quantity), never         *)
(* negative.                                                               *)
(***************************************************************************)
C9_SharesAreTruncatedMagnitude ==
    /\ Len(trades) <= Len(Sources)
    /\ \A k \in 1..Len(trades) :
          LET q == Abs(Sources[k].quantity)
              unit == Pow10(q.d)
          IN  /\ trades[k].shares >= 0
              /\ trades[k].shares * unit <= q.n
              /\ q.n < (trades[k].shares + 1) * unit

\* The row of a trade of quantity -12.7 has 12 shares.
C9_Witness ==
    /\ pc = "done"
    /\ Len(trades) = 1
    /\ Sources[1].quantity = [n |-> 0 - 127, d |-> 1]
    /\ trades[1].shares = 12

(***************************************************************************)
(* C10.  The price of a row is abs(tradePrice * fxRateToBase): the product *)
(* of the magnitudes, never negative, whatever the signs of quantity,      *)
(* price and rate.                                                         *)
(***************************************************************************)
C10_PriceIsMagnitude ==
    /\ Len(trades) <= Len(Sources)
    /\ \A k \in 1..Len(trades) :
          /\ trades[k].price.n >= 0
          /\ trades[k].price =
                Mul(Abs(Sources[k].tradePrice), Abs(Sources[k].fxRateToBase))

\* A sale whose trade price times FX rate is negative.
C10_Witness ==
    /\ pc = "done"
    /\ Len(trades) = 1
    /\ Sources[1].quantity.n < 0
    /\ Sources[1].tradePrice.n * Sources[1].fxRateToBase.n < 0
    /\ trades[1].price.n > 0

=============================================================================
